---------------------------- MODULE Spec2Model ----------------------------
(***************************************************************************)
(* Model of DihedralGaussianLJLambda (dihedral_gaussian_ljlambda.cpp):     *)
(* the per-type parameter store (allocate, coeff, write_restart,           *)
(* read_restart) and the compute pass over the dihedral list.              *)
(*                                                                         *)
(* A C++ double is modelled as a decimal floating-point number with a      *)
(* four-digit mantissa, [m |-> mantissa, e |-> exponent] = m * 10^e,       *)
(* rounded to nearest after every operation; NaN is the quiet NaN of a     *)
(* 0/0, and Undef is the indeterminate content of memory that              *)
(* memory->create returned and nothing has written yet.  The arithmetic    *)
(* is written as functions over Num so that an operand is evaluated once.  *)
(***************************************************************************)
EXTENDS Integers, Sequences, FiniteSets, TLC

(***************************************************************************)
(* double arithmetic                                                       *)
(***************************************************************************)
Num == [m : Int, e : Int]

Zero == [m |-> 0, e |-> 0]
NaN == [m |-> 0, e |-> 1]
Undef == [m |-> 0, e |-> 2]

\* neither NaN nor indeterminate
IsNum(a) == a.m # 0 \/ a.e = 0

\* the result of an operation one of whose operands is not a number
Special(a, b) == IF a = Undef \/ b = Undef THEN Undef ELSE NaN

Pow10(k) == <<1, 10, 100, 1000, 10000, 100000, 1000000, 10000000,
              100000000, 1000000000>>[k + 1]

Digits(k) ==
  IF k < 10 THEN 1 ELSE IF k < 100 THEN 2 ELSE IF k < 1000 THEN 3
  ELSE IF k < 10000 THEN 4 ELSE IF k < 100000 THEN 5
  ELSE IF k < 1000000 THEN 6 ELSE IF k < 10000000 THEN 7
  ELSE IF k < 100000000 THEN 8 ELSE IF k < 1000000000 THEN 9 ELSE 10

AbsInt(k) == IF k < 0 THEN -k ELSE k
SgnInt(k) == IF k < 0 THEN -1 ELSE 1

\* m * 10^e rounded to a four-digit mantissa (round half away from zero)
norm[m \in Int, e \in Int] ==
  IF m = 0 THEN Zero
  ELSE LET d == Digits(AbsInt(m))
       IN IF d > 4
          THEN LET q == (AbsInt(m) + 5 * Pow10(d - 5)) \div Pow10(d - 4)
               IN IF q = 10000
                  THEN [m |-> SgnInt(m) * 1000, e |-> e + d - 3]
                  ELSE [m |-> SgnInt(m) * q, e |-> e + d - 4]
          ELSE [m |-> m * Pow10(4 - d), e |-> e - (4 - d)]

FNorm(m, e) == norm[m, e]
FromInt(k) == norm[k, 0]
\* the decimal literal m * 10^e of the source text
Dec(m, e) == norm[m, e]

neg[a \in Num] == IF IsNum(a) THEN [m |-> -a.m, e |-> a.e] ELSE a
FNeg(a) == neg[a]

abs[a \in Num] == IF IsNum(a) THEN [m |-> AbsInt(a.m), e |-> a.e] ELSE a
\* fabs
FAbs(a) == abs[a]

add[a \in Num, b \in Num] ==
  IF ~IsNum(a) \/ ~IsNum(b) THEN Special(a, b)
  ELSE IF a.m = 0 THEN b
  ELSE IF b.m = 0 THEN a
  ELSE IF a.e >= b.e
       THEN IF a.e - b.e > 5 THEN a
            ELSE norm[a.m * Pow10(a.e - b.e) + b.m, b.e]
       ELSE IF b.e - a.e > 5 THEN b
            ELSE norm[b.m * Pow10(b.e - a.e) + a.m, a.e]
FAdd(a, b) == add[a, b]
FSub(a, b) == add[a, neg[b]]

mul[a \in Num, b \in Num] ==
  IF ~IsNum(a) \/ ~IsNum(b) THEN Special(a, b)
  ELSE norm[a.m * b.m, a.e + b.e]
FMul(a, b) == mul[a, b]

\* a / b; 0/0 is NaN (a non-zero numerator over zero does not arise for
\* the inputs of this model and is folded into NaN as well)
div[a \in Num, b \in Num] ==
  IF ~IsNum(a) \/ ~IsNum(b) THEN Special(a, b)
  ELSE IF b.m = 0 THEN NaN
  ELSE norm[SgnInt(a.m) * SgnInt(b.m) *
            ((AbsInt(a.m) * 100000) \div AbsInt(b.m)), a.e - b.e - 5]
FDiv(a, b) == div[a, b]

\* a < b: false as soon as an operand is not a number
lt[a \in Num, b \in Num] == IsNum(a) /\ IsNum(b) /\ add[a, neg[b]].m < 0
FLt(a, b) == lt[a, b]
FGt(a, b) == lt[b, a]

max[a \in Num, b \in Num] == IF lt[b, a] THEN a ELSE b
\* MAX(a,b) of the host headers: ((a) > (b) ? (a) : (b))
MAX(a, b) == max[a, b]

\* Newton's iteration from above for the integer square root
isqrt[k \in Nat, r \in Nat] ==
  IF (r + k \div r) \div 2 >= r THEN r ELSE isqrt[k, (r + k \div r) \div 2]

\* floor of the square root of a positive integer
ISqrt(k) == isqrt[k, 46340]

sqrt[a \in Num] ==
  IF ~IsNum(a) THEN a
  ELSE IF a.m < 0 THEN NaN
  ELSE IF a.m = 0 THEN Zero
  ELSE IF a.e % 2 # 0
       THEN norm[ISqrt(a.m * 100000), (a.e - 5) \div 2]
       ELSE norm[ISqrt(a.m * 10000), (a.e - 4) \div 2]
FSqrt(a) == sqrt[a]

\* a^k for an integer k >= 0, by repeated squaring
powint[a \in Num, k \in Nat] ==
  IF k = 0 THEN norm[1, 0]
  ELSE IF k % 2 = 0
       THEN [h \in Num |-> mul[h, h]][powint[a, k \div 2]]
       ELSE mul[a, powint[a, k - 1]]

\* pow(x, 12.0) and pow(x, 6.0) of the source: integral exponents
pow(a, k) == powint[a, k]

\* integer part (toward zero) of a number of magnitude below 10^9
FTrunc(a) ==
  IF a.e >= 0 THEN a.m * Pow10(a.e)
  ELSE IF a.e < -4 THEN 0
  ELSE SgnInt(a.m) * (AbsInt(a.m) \div Pow10(-a.e))

MY_PI == [m |-> 3142, e |-> -3]
HalfPi == [m |-> 1571, e |-> -3]
EulerE == [m |-> 2718, e |-> -3]
One == [m |-> 1000, e |-> -3]
Two == [m |-> 2000, e |-> -3]

\* 1 + (r / k) * t, one factor of the Horner form of a Taylor series
horner[r \in Num, k \in Int, t \in Num] == add[One, mul[div[r, norm[k, 0]], t]]

\* e^r for -1 < r < 1
expfrac[r \in Num] ==
  horner[r, 1, horner[r, 2, horner[r, 3, horner[r, 4,
    horner[r, 5, horner[r, 6, horner[r, 7, One]]]]]]]

\* exp(x): e^k for the integer part k times the Taylor series of the rest
expf[a \in Num] ==
  IF ~IsNum(a) THEN a
  ELSE IF FTrunc(a) >= 0
       THEN mul[powint[EulerE, FTrunc(a)],
                expfrac[add[a, norm[-FTrunc(a), 0]]]]
       ELSE div[expfrac[add[a, norm[-FTrunc(a), 0]]],
                powint[EulerE, -FTrunc(a)]]
exp(a) == expf[a]

\* acos(x) for 0 <= x <= 1 (Abramowitz-Stegun 4.4.45)
acospos[v \in Num] ==
  mul[sqrt[add[One, neg[v]]],
      add[HalfPi, mul[v, add[norm[-2121, -4],
                             mul[v, add[norm[7426, -5],
                                        mul[v, norm[-1873, -5]]]]]]]]

acosf[a \in Num] ==
  IF ~IsNum(a) THEN a
  ELSE IF a.m < 0 THEN add[MY_PI, neg[acospos[neg[a]]]]
  ELSE acospos[a]
acos(a) == acosf[a]

\* 1 - (v / k) * t, one factor of the Horner form of the sine series
hornerm[v \in Num, k \in Int, t \in Num] ==
  add[One, neg[mul[div[v, norm[k, 0]], t]]]

\* sin(x) for 0 <= x <= pi/2, v = x * x
sinpos[v \in Num, u \in Num] ==
  mul[u, hornerm[v, 6, hornerm[v, 20, hornerm[v, 42, hornerm[v, 72, One]]]]]

\* sin(x) for 0 <= x <= pi
sinabs[u \in Num] ==
  IF lt[HalfPi, u]
  THEN [w \in Num |-> sinpos[mul[w, w], w]][add[MY_PI, neg[u]]]
  ELSE sinpos[mul[u, u], u]

sinf[a \in Num] ==
  IF ~IsNum(a) THEN a
  ELSE IF a.m < 0 THEN neg[sinabs[neg[a]]]
  ELSE sinabs[a]
sin(a) == sinf[a]

(***************************************************************************)
(* compute: constants and the arithmetic of one dihedral record            *)
(***************************************************************************)
TOLERANCE == Dec(5, -2)
SMALL == Dec(1, -3)
SMALLER == Dec(1, -5)

\* the seven wells
ka == Dec(114, -1)
kb == Dec(15, -2)
kc == Dec(18, -1)
kd == Dec(65, -2)
fa == Dec(9, -1)
fb == Dec(102, -2)
fc == Dec(-155, -2)
fd == Dec(-25, -1)
eb0 == Dec(27, -2)
ec0 == Dec(14, -2)
ed0 == Dec(26, -2)

\* u - v, component by component
Sub3(u, v) == <<FSub(u[1], v[1]), FSub(u[2], v[2]), FSub(u[3], v[3])>>
Neg3(u) == <<FNeg(u[1]), FNeg(u[2]), FNeg(u[3])>>
Add3(u, v) == <<FAdd(u[1], v[1]), FAdd(u[2], v[2]), FAdd(u[3], v[3])>>
\* ux*vx + uy*vy + uz*vz, summed left to right
Dot3(u, v) == FAdd(FAdd(FMul(u[1], v[1]), FMul(u[2], v[2])), FMul(u[3], v[3]))
\* a*u + b*v + c*w, component by component
Comb3(a, u, b, v, c, w) ==
  <<FAdd(FAdd(FMul(a, u[1]), FMul(b, v[1])), FMul(c, w[1])),
    FAdd(FAdd(FMul(a, u[2]), FMul(b, v[2])), FMul(c, w[2])),
    FAdd(FAdd(FMul(a, u[3]), FMul(b, v[3])), FMul(c, w[3]))>>
\* the cross product u x v
Cross3(u, v) ==
  <<FSub(FMul(u[2], v[3]), FMul(u[3], v[2])),
    FSub(FMul(u[3], v[1]), FMul(u[1], v[3])),
    FSub(FMul(u[1], v[2]), FMul(u[2], v[1]))>>
\* u*a, component by component
Scale3(u, a) == <<FMul(u[1], a), FMul(u[2], a), FMul(u[3], a)>>

\* if (sc < SMALL) sc = SMALL
FloorSinJoint(sc) == IF FLt(sc, SMALL) THEN SMALL ELSE sc

\* if (fabs(si) < SMALLER) si = SMALLER
FloorSinPhi(s) == IF FLt(FAbs(s), SMALLER) THEN SMALLER ELSE s

\* the error check: c > 1.0 + TOLERANCE || c < (-1.0 - TOLERANCE)
DomainError(cc) ==
  FGt(cc, FAdd(One, TOLERANCE)) \/ FLt(cc, FSub(FNeg(One), TOLERANCE))

\* c left as the geometry gave it
NoClamp(cc) == cc

\* if (c > 1.0) c = 1.0; if (c < -1.0) c = -1.0
Clamp(cc) ==
  IF FGt(cc, One) THEN One ELSE IF FLt(cc, FNeg(One)) THEN FNeg(One) ELSE cc

\* phi = acos(c); if (dx > 0.0) phi *= -1.0
Phi(cc, d) == IF FGt(d, Zero) THEN FMul(acos(cc), FNeg(One)) ELSE acos(cc)

\* f2 = -s2vec - f1
TorsionF2(s, g1) == Sub3(Neg3(s), g1)

\* f3 = s2vec + f4
TorsionF3Plus(s, g4) == Add3(s, g4)

\* f3 = s2vec - f4
TorsionF3(s, g4) == Sub3(s, g4)

\* the branch test with the separation compared to sigma itself
ShortRangeUnsquared(r, sig) == FLt(r, sig)

\* the branch test of the 1-4 term: rsq < sigma[type]*sigma[type]
ShortRange(r, sig) == FLt(r, FMul(sig, sig))

(***************************************************************************)
(* bounds and inputs                                                       *)
(***************************************************************************)
\* the largest number of dihedral types (atom->ndihedraltypes) explored
MaxTypes == 2
\* the number of MPI ranks
NWorkers == 2

Workers == 0..(NWorkers - 1)

V3(p, q, r) == <<FromInt(p), FromInt(q), FromInt(r)>>

\* positions of atoms 0..3 offered in atom->x: a right-angle torsion, the
\* planar cis and trans conformations, collinear first and second bonds,
\* first and third bonds both nearly along the second, a generic one
Geometries ==
  { [k \in 0..3 |-> q[k + 1]] : q \in
    { <<V3(0, 1, 0), V3(0, 0, 0), V3(1, 0, 0), V3(1, 0, 1)>>,
      <<V3(0, 1, 0), V3(0, 0, 0), V3(1, 0, 0), V3(1, 1, 0)>>,
      <<V3(0, 1, 0), V3(0, 0, 0), V3(1, 0, 0), V3(1, -1, 0)>>,
      <<V3(-1, 0, 0), V3(0, 0, 0), V3(1, 0, 0), V3(1, 1, 0)>>,
      <<V3(2, 2, 2), V3(0, 0, 0), V3(1, 1, 1), V3(0, -1, -1)>>,
      <<V3(1, 2, 0), V3(0, 0, 1), V3(1, 0, 0), V3(2, 1, 2)>> } }

\* the force buffer atom->f on entry to a pass
ForcesOnEntry == [k \in 0..3 |-> V3(k + 1, 0, -1)]

\* dihedral lists offered in neighbor->dihedrallist for nt types:
\* rows are <<i1, i2, i3, i4, type>>
DihedralLists(nt) ==
  { << >> } \cup { << <<0, 1, 2, 3, t>> >> : t \in 1..nt }
  \cup { << <<0, 1, 2, 3, 1>>, <<3, 2, 1, 0, nt>> >> }

\* <<force->newton_bond, atom->nlocal>>
Ownerships == { <<1, 2>>, <<0, 2>>, <<0, 4>> }

\* the numeric arguments of a dihedral_coeff command after the type range
\* (arg[1], arg[2], ...): two, three, four and six values
CoeffArgs ==
  { <<Dec(2, -1), One>>,
    <<Dec(2, -1), One, Dec(1, -1)>>,
    <<One, Two, Dec(5, -1), Dec(3, -1)>>,
    <<One, One, Dec(5, -1), Dec(3, -1), Zero, Zero>> }

(***************************************************************************)
(* state                                                                   *)
(***************************************************************************)
VARIABLES
  ntypes,        \* atom->ndihedraltypes
  allocated,     \* per rank: Dihedral::allocated
  setflag,       \* per rank: setflag[1..ntypes], or Null before allocate
  epsilon, sigma, lambda, epsdihed,
  ljm1, ljm2, ljm3, ljm4, ljn1, ljn2, ljn3, ljn4,
  err,           \* the message of error->all once it has been called
  fp,            \* the doubles of the restart file, in file order
  at,            \* "idle", or the part of the loop body compute runs next
  me,            \* the rank running the pass
  x, f,          \* atom->x, atom->f of that rank
  tag,           \* atom->tag
  dihedrallist, nlocal, newton_bond,
  screen,        \* whether the screen stream is non-NULL
  ntimestep,     \* update->ntimestep
  eflag,         \* the eflag argument of compute
  n,             \* the loop index of compute
  evdwl,         \* the local evdwl of compute
  msg,           \* what the error check of this iteration wrote
  call,          \* history: the arguments of the coeff call just made
  wsnap,         \* history: rank 0's arrays when write_restart ran
  restored,      \* history: read_restart was the last change of the store
  f0,            \* history: atom->f on entry to the pass
  hist,          \* history: the forces each finished iteration added
  reads          \* history: the types whose parameters the pass has read

\* the locals of compute; vb1 stands for vb1x, vb1y, vb1z, cxyz for cx, cy,
\* cz, sxyz2 for sx2, sy2, sz2 and del for delx, dely, delz; sc1div and
\* sc2div are history: the values 1.0 is divided by in sc1 = 1.0/sc1 and
\* sc2 = 1.0/sc2
VARIABLES
  i1, i2, i3, i4, type, vb1, vb2, vb2m, vb3, cxyz, sxyz2, f1, f2, f3, f4,
  del, sb1, sb2, sb3, rb1, rb3, c0, b1mag2, b1mag, b2mag2, b2mag, b3mag2,
  b3mag, ctmp, r12c1, c1mag, r12c2, c2mag, sin2, sc1, sc2, s1, s2, s12, c,
  cmag, dx, phi, si, siinv, dphia, dphib, dphib2, dphic, dphic2, dphid,
  dphid2, pa, pb, pb2, pc, pc2, pd, pd2, ea, eb, eb2, ec, ec2, ed, ed2,
  fea, feb, feb2, fec, fec2, fed, fed2, pp, ppd, a, a11, a22, a33, a12,
  a13, a23, rsq, r2inv, r6inv, forcelj, fpair, sc1div, sc2div

Null == << >>
NoCall == << >>
NoMessage == << >>
NoError == "none"
IncorrectArgs == "Incorrect args for dihedral coefficients"

\* a local of compute that has not been assigned
Unset3 == <<Undef, Undef, Undef>>

rawVars == <<epsilon, sigma, lambda, epsdihed>>
ljVars == <<ljm1, ljm2, ljm3, ljm4, ljn1, ljn2, ljn3, ljn4>>
storeVars == <<allocated, setflag, rawVars, ljVars>>
callerVars == <<me, x, tag, dihedrallist, nlocal, newton_bond, screen,
                ntimestep, eflag, f0>>
geometryVars ==
  <<i1, i2, i3, i4, type, vb1, vb2, vb2m, vb3, sb1, sb2, sb3, rb1, rb3, c0,
    b1mag2, b1mag, b2mag2, b2mag, b3mag2, b3mag, ctmp, r12c1, c1mag, r12c2,
    c2mag, sin2, sc1, sc2, s1, s2, cxyz, cmag, dx, sc1div, sc2div>>
potentialVars ==
  <<phi, si, siinv, dphia, dphib, dphib2, dphic, dphic2, dphid, dphid2,
    pa, pb, pb2, pc, pc2, pd, pd2, ea, eb, eb2, ec, ec2, ed, ed2,
    fea, feb, feb2, fec, fec2, fed, fed2, pp, ppd>>
forceVars == <<a, a11, a22, a33, a12, a13, a23, sxyz2, f1, f2, f3, f4>>
pairVars == <<del, rsq, r2inv, r6inv, forcelj, fpair, evdwl>>
localVars == <<geometryVars, c, s12, potentialVars, forceVars, pairVars>>
passVars == <<at, callerVars, f, n, msg, hist, reads, localVars>>
fileVars == <<fp, wsnap>>
vars == <<ntypes, storeVars, err, fileVars, passVars, call, restored>>

Types == 1..ntypes


(***************************************************************************)
(* the parameter store                                                     *)
(***************************************************************************)
\* the derived constants, as coeff and read_restart compute them
Ljm1(eps, sig) == FMul(FMul(FromInt(12), eps), pow(sig, 12))
Ljm2(eps, sig) == FMul(FMul(FromInt(12), eps), pow(sig, 6))
Ljm3(eps, sig) == FMul(eps, pow(sig, 12))
Ljm4(eps, sig) == FMul(FMul(Two, eps), pow(sig, 6))
Ljn1(lam, sig) == FMul(FMul(FromInt(-12), lam), pow(sig, 12))
Ljn2(lam, sig) == FMul(FMul(FromInt(-12), lam), pow(sig, 6))
Ljn3(lam, sig) == FMul(FNeg(lam), pow(sig, 12))
\* ljn4 with the sign of ljm4
Ljn4Positive(lam, sig) == FMul(FMul(Two, lam), pow(sig, 6))
Ljn4(lam, sig) == FMul(FMul(FromInt(-2), lam), pow(sig, 6))

\* memory->create: an array 1..ntypes of indeterminate content
Created == [i \in Types |-> Undef]

\* the arrays of one rank after allocate(): every flag cleared
Allocate ==
  /\ at = "idle" /\ err = NoError
  /\ allocated' = [w \in Workers |-> 1]
  /\ setflag' = [w \in Workers |-> [i \in Types |-> 0]]
  /\ epsilon' = [w \in Workers |-> Created]
  /\ sigma' = [w \in Workers |-> Created]
  /\ lambda' = [w \in Workers |-> Created]
  /\ epsdihed' = [w \in Workers |-> Created]
  /\ ljm1' = [w \in Workers |-> Created]
  /\ ljm2' = [w \in Workers |-> Created]
  /\ ljm3' = [w \in Workers |-> Created]
  /\ ljm4' = [w \in Workers |-> Created]
  /\ ljn1' = [w \in Workers |-> Created]
  /\ ljn2' = [w \in Workers |-> Created]
  /\ ljn3' = [w \in Workers |-> Created]
  /\ ljn4' = [w \in Workers |-> Created]
  /\ call' = NoCall /\ restored' = FALSE
  /\ UNCHANGED <<ntypes, err, fileVars, passVars>>

\* the argument-count test without its upper limit
TooFewArgs(narg) == narg < 4

\* narg < 4 || narg > 5
BadArgCount(narg) == narg < 4 \/ narg > 5

\* array arr of rank w as coeff finds it: created first if !allocated
Present(arr, w, fresh) == IF allocated[w] = 1 THEN arr[w] ELSE fresh

\* the loop of coeff over ilo..ihi on one array: v is what it stores
Assign(arr, ilo, ihi, v) ==
  [i \in Types |-> IF ilo <= i /\ i <= ihi THEN v ELSE arr[i]]

\* coeff(narg, arg) on every rank; ilo..ihi is what force->bounds made of
\* arg[0], args are the numbers force->numeric made of arg[1..]
CoeffCall(args, ilo, ihi) ==
  LET narg == Len(args) + 1
      count == IF ihi >= ilo THEN ihi - ilo + 1 ELSE 0
      epsilon_one == args[1]
      sigma_one == args[2]
      lambda_one == args[3]
      epsdihed_one == IF narg > 4 THEN args[4] ELSE Zero
      Fill(arr, v) ==
        [w \in Workers |-> Assign(Present(arr, w, Created), ilo, ihi, v)]
  IN /\ call' = [narg |-> narg, ilo |-> ilo, ihi |-> ihi, args |-> args]
     /\ IF BadArgCount(narg)
        THEN /\ err' = IncorrectArgs
             /\ UNCHANGED <<storeVars, restored>>
        ELSE /\ allocated' = [w \in Workers |-> 1]
             /\ setflag' = [w \in Workers |->
                  Assign(Present(setflag, w, [i \in Types |-> 0]), ilo, ihi, 1)]
             /\ epsilon' = Fill(epsilon, epsilon_one)
             /\ sigma' = Fill(sigma, sigma_one)
             /\ lambda' = Fill(lambda, lambda_one)
             /\ epsdihed' = Fill(epsdihed, epsdihed_one)
             /\ ljm1' = Fill(ljm1, Ljm1(epsilon_one, sigma_one))
             /\ ljm2' = Fill(ljm2, Ljm2(epsilon_one, sigma_one))
             /\ ljm3' = Fill(ljm3, Ljm3(epsilon_one, sigma_one))
             /\ ljm4' = Fill(ljm4, Ljm4(epsilon_one, sigma_one))
             /\ ljn1' = Fill(ljn1, Ljn1(lambda_one, sigma_one))
             /\ ljn2' = Fill(ljn2, Ljn2(lambda_one, sigma_one))
             /\ ljn3' = Fill(ljn3, Ljn3(lambda_one, sigma_one))
             /\ ljn4' = Fill(ljn4, Ljn4(lambda_one, sigma_one))
             /\ err' = IF count = 0 THEN IncorrectArgs ELSE NoError
             /\ restored' = (restored /\ count = 0)
     /\ UNCHANGED <<ntypes, fileVars, passVars>>

\* force->bounds hands back a range inside 1..ntypes or an empty one
Coeff ==
  /\ at = "idle" /\ err = NoError
  /\ \E args \in CoeffArgs, ilo \in 1..(ntypes + 1), ihi \in 0..ntypes :
       CoeffCall(args, ilo, ihi)

(***************************************************************************)
(* restart files                                                           *)
(***************************************************************************)
\* one record of four doubles per type
WriteInterleaved(eps, sig, lam, epd) ==
  [k \in 1..(4 * Len(eps)) |->
     <<eps, sig, lam, epd>>[((k - 1) % 4) + 1][((k - 1) \div 4) + 1]]

\* the four fwrite calls of write_restart, each of ntypes doubles
WriteLayout(eps, sig, lam, epd) == eps \o sig \o lam \o epd

\* proc 0 writes out coeffs to restart file
WriteRestart ==
  /\ at = "idle" /\ err = NoError
  /\ allocated[0] = 1
  /\ fp' = WriteLayout(epsilon[0], sigma[0], lambda[0], epsdihed[0])
  /\ wsnap' = [setflag |-> setflag[0],
               epsilon |-> epsilon[0], sigma |-> sigma[0],
               lambda |-> lambda[0], epsdihed |-> epsdihed[0],
               ljm1 |-> ljm1[0], ljm2 |-> ljm2[0], ljm3 |-> ljm3[0],
               ljm4 |-> ljm4[0], ljn1 |-> ljn1[0], ljn2 |-> ljn2[0],
               ljn3 |-> ljn3[0], ljn4 |-> ljn4[0]]
  /\ call' = NoCall
  /\ UNCHANGED <<ntypes, storeVars, err, passVars, restored>>

\* the k-th fread of read_restart: ntypes doubles from the file position
ReadLayout(file, k) ==
  [i \in Types |-> file[(k - 1) * ntypes + i]]

\* what rank w holds in an array after the fread of rank 0
AfterRead(w, file, k) == IF w = 0 THEN ReadLayout(file, k) ELSE Created

\* every rank keeps what it holds
NoBcast(arr) == arr

\* MPI_Bcast(&arr[1], ntypes, MPI_DOUBLE, 0, world)
Bcast(arr) == [w \in Workers |-> arr[0]]

\* proc 0 reads coeffs from restart file, bcasts them
ReadRestart ==
  /\ at = "idle" /\ err = NoError
  /\ Len(fp) = 4 * ntypes
  /\ LET eps == Bcast([w \in Workers |-> AfterRead(w, fp, 1)])
         sig == Bcast([w \in Workers |-> AfterRead(w, fp, 2)])
         lam == Bcast([w \in Workers |-> AfterRead(w, fp, 3)])
         epd == Bcast([w \in Workers |-> AfterRead(w, fp, 4)])
         Each(F(_, _), u, v) ==
           [w \in Workers |-> [i \in Types |-> F(u[w][i], v[w][i])]]
     IN /\ allocated' = [w \in Workers |-> 1]
        /\ setflag' = [w \in Workers |-> [i \in Types |-> 1]]
        /\ epsilon' = eps
        /\ sigma' = sig
        /\ lambda' = lam
        /\ epsdihed' = epd
        /\ ljm1' = Each(Ljm1, eps, sig)
        /\ ljm2' = Each(Ljm2, eps, sig)
        /\ ljm3' = Each(Ljm3, eps, sig)
        /\ ljm4' = Each(Ljm4, eps, sig)
        /\ ljn1' = Each(Ljn1, lam, sig)
        /\ ljn2' = Each(Ljn2, lam, sig)
        /\ ljn3' = Each(Ljn3, lam, sig)
        /\ ljn4' = Each(Ljn4, lam, sig)
  /\ call' = NoCall /\ restored' = TRUE
  /\ UNCHANGED <<ntypes, err, fileVars, passVars>>

(***************************************************************************)
(* compute                                                                 *)
(*                                                                         *)
(* The loop body is taken in five parts, in program order; the locals      *)
(* keep their values between the parts.  edihedral and the two ev_tally    *)
(* calls only feed the energy and virial accumulators of the base class    *)
(* and are left out.  A comparison with an indeterminate operand (sigma    *)
(* of a type that was never set) is taken as false: either branch then     *)
(* yields an indeterminate forcelj and evdwl.                              *)
(***************************************************************************)
\* the ownership gate without the newton_bond flag
OwnedLocal(i) == i < nlocal

\* the ownership gate: if (newton_bond || i < nlocal)
Owned(i) == newton_bond = 1 \/ i < nlocal

\* f[i] += v under the ownership gate
Accumulate(buf, i, v) ==
  IF Owned(i) THEN [buf EXCEPT ![i] = Add3(@, v)] ELSE buf

\* f[i] -= v under the ownership gate
Deduct(buf, i, v) ==
  IF Owned(i) THEN [buf EXCEPT ![i] = Sub3(@, v)] ELSE buf

\* the warning and the four position lines written when the error check fires
Message(j1, j2, j3, j4) ==
  [me |-> me, ntimestep |-> ntimestep,
   tags |-> <<tag[j1], tag[j2], tag[j3], tag[j4]>>,
   atoms |-> <<x[j1], x[j2], x[j3], x[j4]>>]

\* what the error check writes: something only if (screen)
Diagnostic(error, j1, j2, j3, j4) ==
  IF error /\ screen THEN Message(j1, j2, j3, j4) ELSE NoMessage

\* the for statement: the body runs again while n < ndihedrallist
LoopTest(k, list) == IF k < Len(list) THEN "geometry" ELSE "return"

\* entry of compute(eflag, vflag): the caller's buffers and flags are read,
\* evdwl is zeroed; the other locals are not initialised
ComputeBegin ==
  /\ at = "idle" /\ err = NoError
  /\ \E w \in Workers, g \in Geometries, dl \in DihedralLists(ntypes),
        own \in Ownerships, scr \in BOOLEAN, ef \in 0..1 :
       /\ allocated[w] = 1
       /\ me' = w /\ x' = g /\ f' = ForcesOnEntry /\ f0' = ForcesOnEntry
       /\ tag' = [k \in 0..3 |-> 10 * w + k + 1]
       /\ dihedrallist' = dl
       /\ newton_bond' = own[1] /\ nlocal' = own[2]
       /\ screen' = scr /\ ntimestep' = 5 /\ eflag' = ef
       /\ at' = LoopTest(0, dl)
  /\ n' = 0 /\ evdwl' = Zero /\ hist' = << >> /\ reads' = {}
  /\ call' = NoCall
  /\ UNCHANGED <<ntypes, storeVars, err, fileVars, restored, msg,
                 geometryVars, c, s12, potentialVars, forceVars,
                 del, rsq, r2inv, r6inv, forcelj, fpair>>

\* the loop body from the read of the list row to dx
ComputeGeometry ==
  /\ at = "geometry"
  /\ i1' = dihedrallist[n + 1][1]
  /\ i2' = dihedrallist[n + 1][2]
  /\ i3' = dihedrallist[n + 1][3]
  /\ i4' = dihedrallist[n + 1][4]
  /\ type' = dihedrallist[n + 1][5]
  /\ vb1' = Sub3(x[i1'], x[i2'])
  /\ vb2' = Sub3(x[i3'], x[i2'])
  /\ vb2m' = Neg3(vb2')
  /\ vb3' = Sub3(x[i4'], x[i3'])
  /\ sb1' = FDiv(One, Dot3(vb1', vb1'))
  /\ sb2' = FDiv(One, Dot3(vb2', vb2'))
  /\ sb3' = FDiv(One, Dot3(vb3', vb3'))
  /\ rb1' = FSqrt(sb1')
  /\ rb3' = FSqrt(sb3')
  /\ c0' = FMul(FMul(Dot3(vb1', vb3'), rb1'), rb3')
  /\ b1mag2' = Dot3(vb1', vb1')
  /\ b1mag' = FSqrt(b1mag2')
  /\ b2mag2' = Dot3(vb2', vb2')
  /\ b2mag' = FSqrt(b2mag2')
  /\ b3mag2' = Dot3(vb3', vb3')
  /\ b3mag' = FSqrt(b3mag2')
  /\ r12c1' = FDiv(One, FMul(b1mag', b2mag'))
  /\ c1mag' = FMul(Dot3(vb1', vb2'), r12c1')
  /\ ctmp' = Dot3(vb2m', vb3')
  /\ r12c2' = FDiv(One, FMul(b2mag', b3mag'))
  /\ c2mag' = FMul(ctmp', r12c2')
  /\ sc1div' = FloorSinJoint(FSqrt(MAX(FSub(One, FMul(c1mag', c1mag')), Zero)))
  /\ sc1' = FDiv(One, sc1div')
  /\ sin2' = MAX(FSub(One, FMul(c2mag', c2mag')), Zero)
  /\ sc2div' = FloorSinJoint(FSqrt(sin2'))
  /\ sc2' = FDiv(One, sc2div')
  /\ s1' = FMul(sc1', sc1')
  /\ s2' = FMul(sc2', sc2')
  /\ s12' = FMul(sc1', sc2')
  /\ c' = FMul(FAdd(c0', FMul(c1mag', c2mag')), s12')
  /\ cxyz' = Cross3(vb1', vb2')
  /\ cmag' = FSqrt(Dot3(cxyz', cxyz'))
  /\ dx' = FDiv(FDiv(Dot3(cxyz', vb3'), cmag'), b3mag')
  /\ at' = "check"
  /\ UNCHANGED <<ntypes, storeVars, err, fileVars, call, restored,
                 callerVars, f, n, msg, hist, reads, potentialVars,
                 forceVars, pairVars>>

\* the error check and the clamp of c
ComputeCheck ==
  /\ at = "check"
  /\ msg' = Diagnostic(DomainError(c), i1, i2, i3, i4)
  /\ c' = Clamp(c)
  /\ at' = "potential"
  /\ UNCHANGED <<ntypes, storeVars, err, fileVars, call, restored,
                 callerVars, f, n, hist, reads, geometryVars, s12,
                 potentialVars, forceVars, pairVars>>

\* phi, its sine and the seven wells: pp and ppd
ComputePotential ==
  /\ at = "potential"
  /\ phi' = Phi(c, dx)
  /\ si' = FloorSinPhi(sin(phi'))
  /\ siinv' = FDiv(One, si')
  /\ dphia' = FSub(phi', fa)
  /\ dphib' = FSub(phi', fb)
  /\ dphib2' = FAdd(dphib', FMul(Two, MY_PI))
  /\ dphic' = FSub(phi', fc)
  /\ dphic2' = FSub(dphic', FMul(Two, MY_PI))
  /\ dphid' = FSub(phi', fd)
  /\ dphid2' = FSub(dphid', FMul(Two, MY_PI))
  /\ pa' = FMul(FNeg(ka), dphia')
  /\ pb' = FMul(FMul(FMul(FNeg(kb), dphib'), dphib'), dphib')
  /\ pb2' = FMul(FMul(FMul(FNeg(kb), dphib2'), dphib2'), dphib2')
  /\ pc' = FMul(FNeg(kc), dphic')
  /\ pc2' = FMul(FNeg(kc), dphic2')
  /\ pd' = FMul(FMul(FMul(FNeg(kd), dphid'), dphid'), dphid')
  /\ pd2' = FMul(FMul(FMul(FNeg(kd), dphid2'), dphid2'), dphid2')
  /\ reads' = reads \cup {type}
  /\ ea' = FSub(FMul(pa', dphia'), epsdihed[me][type])
  /\ eb' = FAdd(FMul(pb', dphib'), eb0)
  /\ eb2' = FAdd(FMul(pb2', dphib2'), eb0)
  /\ ec' = FAdd(FAdd(FMul(pc', dphic'), epsdihed[me][type]), ec0)
  /\ ec2' = FAdd(FAdd(FMul(pc2', dphic2'), epsdihed[me][type]), ec0)
  /\ ed' = FAdd(FAdd(FMul(pd', dphid'), ed0), ec0)
  /\ ed2' = FAdd(FAdd(FMul(pd2', dphid2'), ed0), ec0)
  /\ fea' = exp(ea')
  /\ feb' = exp(eb')
  /\ feb2' = exp(eb2')
  /\ fec' = exp(ec')
  /\ fec2' = exp(ec2')
  /\ fed' = exp(ed')
  /\ fed2' = exp(ed2')
  /\ pp' = FAdd(FAdd(FAdd(FAdd(FAdd(FAdd(fea', feb'), feb2'), fec'),
                          fec2'), fed'), fed2')
  /\ ppd' = FMul(FDiv(
       FAdd(FAdd(FAdd(FAdd(FAdd(FAdd(
         FMul(FMul(Two, pa'), fea'),
         FMul(FMul(FromInt(4), pb'), feb')),
         FMul(FMul(FromInt(4), pb2'), feb2')),
         FMul(FMul(Two, pc'), fec')),
         FMul(FMul(Two, pc2'), fec2')),
         FMul(FMul(FromInt(4), pd'), fed')),
         FMul(FMul(FromInt(4), pd2'), fed2')),
       pp'), siinv')
  /\ at' = "forces"
  /\ UNCHANGED <<ntypes, storeVars, err, fileVars, call, restored,
                 callerVars, f, n, msg, hist, geometryVars, c, s12,
                 forceVars, pairVars>>

\* the projection coefficients, the four torsion forces and their
\* accumulation into f
ComputeForces ==
  /\ at = "forces"
  /\ a' = ppd
  /\ c' = FMul(c, a')
  /\ s12' = FMul(s12, a')
  /\ a11' = FMul(FMul(c', sb1), s1)
  /\ a22' = FMul(FNeg(sb2), FSub(FMul(FMul(Two, c0), s12'),
                                 FMul(c', FAdd(s1, s2))))
  /\ a33' = FMul(FMul(c', sb3), s2)
  /\ a12' = FMul(FNeg(r12c1), FAdd(FMul(FMul(c1mag, c'), s1),
                                   FMul(c2mag, s12')))
  /\ a13' = FMul(FMul(FNeg(rb1), rb3), s12')
  /\ a23' = FMul(r12c2, FAdd(FMul(FMul(c2mag, c'), s2), FMul(c1mag, s12')))
  /\ sxyz2' = Comb3(a12', vb1, a22', vb2, a23', vb3)
  /\ f1' = Comb3(a11', vb1, a12', vb2, a13', vb3)
  /\ f2' = TorsionF2(sxyz2', f1')
  /\ f4' = Comb3(a13', vb1, a23', vb2, a33', vb3)
  /\ f3' = TorsionF3(sxyz2', f4')
  /\ f' = Accumulate(Accumulate(Accumulate(Accumulate(f, i1, f1'),
                                           i2, f2'), i3, f3'), i4, f4')
  /\ at' = "pair"
  /\ UNCHANGED <<ntypes, storeVars, err, fileVars, call, restored,
                 callerVars, n, msg, hist, reads, geometryVars,
                 potentialVars, pairVars>>

\* the 1-4 term: its force and energy and the accumulation of the force
ComputePair ==
  /\ at = "pair"
  /\ del' = Sub3(x[i1], x[i4])
  /\ rsq' = Dot3(del', del')
  /\ r2inv' = FDiv(One, rsq')
  /\ r6inv' = FMul(FMul(r2inv', r2inv'), r2inv')
  /\ forcelj' =
       IF ShortRange(rsq', sigma[me][type])
       THEN FMul(r6inv', FSub(FMul(ljm1[me][type], r6inv'), ljm2[me][type]))
       ELSE FMul(r6inv', FSub(FMul(ljn1[me][type], r6inv'), ljn2[me][type]))
  /\ fpair' = FMul(forcelj', r2inv')
  /\ evdwl' =
       IF eflag # 0
       THEN IF ShortRange(rsq', sigma[me][type])
            THEN FAdd(FAdd(FMul(r6inv', FSub(FMul(ljm3[me][type], r6inv'),
                                             ljm4[me][type])),
                           epsilon[me][type]), lambda[me][type])
            ELSE FMul(r6inv', FSub(FMul(ljn3[me][type], r6inv'),
                                   ljn4[me][type]))
       ELSE evdwl
  /\ f' = Deduct(Accumulate(f, i1, Scale3(del', fpair')),
                 i4, Scale3(del', fpair'))
  /\ hist' = Append(hist, [atoms |-> <<i1, i2, i3, i4>>,
                           torsion |-> <<f1, f2, f3, f4>>,
                           del |-> del', fpair |-> fpair'])
  /\ n' = n + 1
  /\ at' = LoopTest(n', dihedrallist)
  /\ UNCHANGED <<ntypes, storeVars, err, fileVars, call, restored,
                 callerVars, msg, reads, geometryVars, c, s12,
                 potentialVars, forceVars>>

\* compute returns: the buffers are the caller's again and the locals are
\* gone
ComputeEnd ==
  /\ at = "return"
  /\ at' = "idle" /\ me' = 0 /\ x' = Null /\ f' = Null /\ f0' = Null
  /\ tag' = Null /\ dihedrallist' = << >> /\ nlocal' = 0 /\ newton_bond' = 0
  /\ screen' = FALSE /\ ntimestep' = 0 /\ eflag' = 0 /\ n' = 0
  /\ evdwl' = Zero /\ msg' = NoMessage /\ hist' = << >> /\ reads' = {}
  /\ i1' = Undef /\ i2' = Undef /\ i3' = Undef /\ i4' = Undef /\ type' = Undef
  /\ vb1' = Unset3 /\ vb2' = Unset3 /\ vb2m' = Unset3 /\ vb3' = Unset3
  /\ cxyz' = Unset3 /\ sxyz2' = Unset3 /\ f1' = Unset3 /\ f2' = Unset3
  /\ f3' = Unset3 /\ f4' = Unset3 /\ del' = Unset3 /\ sb1' = Undef
  /\ sb2' = Undef /\ sb3' = Undef /\ rb1' = Undef /\ rb3' = Undef
  /\ c0' = Undef /\ b1mag2' = Undef /\ b1mag' = Undef /\ b2mag2' = Undef
  /\ b2mag' = Undef /\ b3mag2' = Undef /\ b3mag' = Undef /\ ctmp' = Undef
  /\ r12c1' = Undef /\ c1mag' = Undef /\ r12c2' = Undef /\ c2mag' = Undef
  /\ sin2' = Undef /\ sc1' = Undef /\ sc2' = Undef /\ s1' = Undef
  /\ s2' = Undef /\ s12' = Undef /\ c' = Undef /\ cmag' = Undef /\ dx' = Undef
  /\ phi' = Undef /\ si' = Undef /\ siinv' = Undef /\ dphia' = Undef
  /\ dphib' = Undef /\ dphib2' = Undef /\ dphic' = Undef /\ dphic2' = Undef
  /\ dphid' = Undef /\ dphid2' = Undef /\ pa' = Undef /\ pb' = Undef
  /\ pb2' = Undef /\ pc' = Undef /\ pc2' = Undef /\ pd' = Undef
  /\ pd2' = Undef /\ ea' = Undef /\ eb' = Undef /\ eb2' = Undef /\ ec' = Undef
  /\ ec2' = Undef /\ ed' = Undef /\ ed2' = Undef /\ fea' = Undef
  /\ feb' = Undef /\ feb2' = Undef /\ fec' = Undef /\ fec2' = Undef
  /\ fed' = Undef /\ fed2' = Undef /\ pp' = Undef /\ ppd' = Undef
  /\ a' = Undef /\ a11' = Undef /\ a22' = Undef /\ a33' = Undef
  /\ a12' = Undef /\ a13' = Undef /\ a23' = Undef /\ rsq' = Undef
  /\ r2inv' = Undef /\ r6inv' = Undef /\ forcelj' = Undef /\ fpair' = Undef
  /\ sc1div' = Undef /\ sc2div' = Undef
  /\ UNCHANGED <<ntypes, storeVars, err, fileVars, call, restored>>

(***************************************************************************)
(* specifications                                                          *)
(***************************************************************************)
Init ==
  /\ ntypes \in 1..MaxTypes
  /\ allocated = [w \in Workers |-> 0]
  /\ setflag = [w \in Workers |-> Null]
  /\ epsilon = [w \in Workers |-> Null]
  /\ sigma = [w \in Workers |-> Null]
  /\ lambda = [w \in Workers |-> Null]
  /\ epsdihed = [w \in Workers |-> Null]
  /\ ljm1 = [w \in Workers |-> Null]
  /\ ljm2 = [w \in Workers |-> Null]
  /\ ljm3 = [w \in Workers |-> Null]
  /\ ljm4 = [w \in Workers |-> Null]
  /\ ljn1 = [w \in Workers |-> Null]
  /\ ljn2 = [w \in Workers |-> Null]
  /\ ljn3 = [w \in Workers |-> Null]
  /\ ljn4 = [w \in Workers |-> Null]
  /\ err = NoError
  /\ fp = << >> /\ wsnap = Null
  /\ call = NoCall /\ restored = FALSE
  /\ at = "idle" /\ me = 0 /\ x = Null /\ f = Null /\ f0 = Null
  /\ tag = Null /\ dihedrallist = << >> /\ nlocal = 0 /\ newton_bond = 0
  /\ screen = FALSE /\ ntimestep = 0 /\ eflag = 0 /\ n = 0
  /\ evdwl = Zero /\ msg = NoMessage /\ hist = << >> /\ reads = {}
  /\ i1 = Undef /\ i2 = Undef /\ i3 = Undef /\ i4 = Undef /\ type = Undef
  /\ vb1 = Unset3 /\ vb2 = Unset3 /\ vb2m = Unset3 /\ vb3 = Unset3
  /\ cxyz = Unset3 /\ sxyz2 = Unset3 /\ f1 = Unset3 /\ f2 = Unset3
  /\ f3 = Unset3 /\ f4 = Unset3 /\ del = Unset3 /\ sb1 = Undef /\ sb2 = Undef
  /\ sb3 = Undef /\ rb1 = Undef /\ rb3 = Undef /\ c0 = Undef /\ b1mag2 = Undef
  /\ b1mag = Undef /\ b2mag2 = Undef /\ b2mag = Undef /\ b3mag2 = Undef
  /\ b3mag = Undef /\ ctmp = Undef /\ r12c1 = Undef /\ c1mag = Undef
  /\ r12c2 = Undef /\ c2mag = Undef /\ sin2 = Undef /\ sc1 = Undef
  /\ sc2 = Undef /\ s1 = Undef /\ s2 = Undef /\ s12 = Undef /\ c = Undef
  /\ cmag = Undef /\ dx = Undef /\ phi = Undef /\ si = Undef /\ siinv = Undef
  /\ dphia = Undef /\ dphib = Undef /\ dphib2 = Undef /\ dphic = Undef
  /\ dphic2 = Undef /\ dphid = Undef /\ dphid2 = Undef /\ pa = Undef
  /\ pb = Undef /\ pb2 = Undef /\ pc = Undef /\ pc2 = Undef /\ pd = Undef
  /\ pd2 = Undef /\ ea = Undef /\ eb = Undef /\ eb2 = Undef /\ ec = Undef
  /\ ec2 = Undef /\ ed = Undef /\ ed2 = Undef /\ fea = Undef /\ feb = Undef
  /\ feb2 = Undef /\ fec = Undef /\ fec2 = Undef /\ fed = Undef
  /\ fed2 = Undef /\ pp = Undef /\ ppd = Undef /\ a = Undef /\ a11 = Undef
  /\ a22 = Undef /\ a33 = Undef /\ a12 = Undef /\ a13 = Undef /\ a23 = Undef
  /\ rsq = Undef /\ r2inv = Undef /\ r6inv = Undef /\ forcelj = Undef
  /\ fpair = Undef /\ sc1div = Undef /\ sc2div = Undef

\* configuration commands and compute passes
Next ==
  \/ Allocate
  \/ Coeff
  \/ ComputeBegin
  \/ ComputeGeometry
  \/ ComputeCheck
  \/ ComputePotential
  \/ ComputeForces
  \/ ComputePair
  \/ ComputeEnd

Spec == Init /\ [][Next]_vars

\* configuration commands and restart files
NextStore ==
  \/ Allocate
  \/ Coeff
  \/ WriteRestart
  \/ ReadRestart

SpecStore == Init /\ [][NextStore]_vars

(***************************************************************************)
(* C1: force balance of the torsion forces                                 *)
(***************************************************************************)
\* f1 + f2 + f3 + f4 in component k, summed left to right
Sum4(k) == FAdd(FAdd(FAdd(f1[k], f2[k]), f3[k]), f4[k])

\* the largest magnitude among the terms of component k
Largest4(k) ==
  MAX(MAX(MAX(MAX(FAbs(f1[k]), FAbs(f2[k])), FAbs(f3[k])), FAbs(f4[k])),
      FAbs(sxyz2[k]))

\* the relative rounding slack allowed to the sum of four rounded terms
RoundingSlack == Dec(1, -2)

\* the torsion forces of the current record have been built
TorsionBuilt == at = "pair"

\* C1 (as stated): for every record whose ppd is a finite number,
\* f1 + f2 + f3 + f4 is exactly zero in each of the three components.
C1_ExactBalance ==
  (TorsionBuilt /\ IsNum(ppd)) => \A k \in 1..3 : Sum4(k) = Zero

\* C1 (amended): for every record whose ppd is a finite number,
\* f2 = -s2vec - f1 and f3 = s2vec - f4 with the same s2vec, and in each of
\* the three components f1 + f2 + f3 + f4 is zero up to the rounding of the
\* terms: its magnitude is at most RoundingSlack times the largest term.
C1_Balance ==
  (TorsionBuilt /\ IsNum(ppd)) =>
    \A k \in 1..3 :
      /\ f2[k] = FSub(FNeg(sxyz2[k]), f1[k])
      /\ f3[k] = FSub(sxyz2[k], f4[k])
      /\ IsNum(Sum4(k))
      /\ ~FLt(FMul(RoundingSlack, Largest4(k)), FAbs(Sum4(k)))

\* a record of a configured type whose torsion forces are not zero and
\* whose sum is not exactly zero
C1_Witness ==
  /\ TorsionBuilt /\ IsNum(ppd) /\ setflag[me][type] = 1
  /\ f1[1].m # 0 /\ f4[2].m # 0
  /\ Sum4(2) # Zero

(***************************************************************************)
(* C2: accumulation into the force buffer                                  *)
(***************************************************************************)
RECURSIVE Accumulated(_, _)
\* the force entry of atom k after the first j records of the pass, had
\* every contribution of those records been added to it in program order
Accumulated(k, j) ==
  IF j = 0 THEN f0[k]
  ELSE LET h == hist[j]
           t0 == Accumulated(k, j - 1)
           t1 == IF h.atoms[1] = k THEN Add3(t0, h.torsion[1]) ELSE t0
           t2 == IF h.atoms[2] = k THEN Add3(t1, h.torsion[2]) ELSE t1
           t3 == IF h.atoms[3] = k THEN Add3(t2, h.torsion[3]) ELSE t2
           t4 == IF h.atoms[4] = k THEN Add3(t3, h.torsion[4]) ELSE t3
           t5 == IF h.atoms[1] = k
                 THEN Add3(t4, Scale3(h.del, h.fpair)) ELSE t4
       IN IF h.atoms[4] = k THEN Sub3(t5, Scale3(h.del, h.fpair)) ELSE t5

\* C2: when the pass returns, every record of the list has been processed,
\* the force entry of every owned atom (newton_bond set, or index < nlocal)
\* is its value on entry plus the torsion forces and the +fpair*del /
\* -fpair*del terms of the records it appears in, and the entry of every
\* atom that is not owned is its value on entry.
C2_Accumulation ==
  at = "return" =>
    /\ Len(hist) = Len(dihedrallist)
    /\ \A j \in 1..Len(hist) :
         hist[j].atoms = SubSeq(dihedrallist[j], 1, 4)
    /\ \A k \in 0..3 :
         f[k] = IF newton_bond # 0 \/ k < nlocal
                THEN Accumulated(k, Len(hist))
                ELSE f0[k]

\* a finished pass over two records in which atom 0 is owned and has
\* received forces and atom 3 is not owned
C2_Witness ==
  /\ at = "return" /\ Len(hist) = 2
  /\ newton_bond = 0 /\ nlocal = 2
  /\ IsNum(f[0][1]) /\ f[0] # f0[0] /\ f[3] = f0[3]

(***************************************************************************)
(* C4: compute and unconfigured types                                      *)
(***************************************************************************)
\* C4: every type whose parameters a pass has read has its configured flag
\* set.
C4_ReadsConfigured == \A t \in reads : setflag[me][t] = 1

(***************************************************************************)
(* C8: the error check                                                     *)
(***************************************************************************)
\* |cc| > 1.05
BeyondTolerance(cc) == FGt(cc, Dec(105, -2)) \/ FLt(cc, Dec(-105, -2))

\* the diagnostic of the record being checked: rank, timestep, the four
\* tags and the four positions
Expected ==
  [me |-> me, ntimestep |-> ntimestep,
   tags |-> <<tag[i1], tag[i2], tag[i3], tag[i4]>>,
   atoms |-> <<x[i1], x[i2], x[i3], x[i4]>>]

PairDone == at \in {"geometry", "return"} /\ n > 0

\* C9: force and energy of the 1-4 term both use the ljm constants (the
\* energy with the epsilon + lambda offset) if rsq < sigma[type]^2 and both
\* use the ljn constants otherwise, rsq = sigma[type]^2 included.
C9_Branch ==
  PairDone =>
    IF FLt(rsq, FMul(sigma[me][type], sigma[me][type]))
    THEN /\ forcelj = FMul(r6inv, FSub(FMul(ljm1[me][type], r6inv),
                                       ljm2[me][type]))
         /\ eflag # 0 =>
              evdwl = FAdd(FAdd(FMul(r6inv,
                                     FSub(FMul(ljm3[me][type], r6inv),
                                          ljm4[me][type])),
                                epsilon[me][type]), lambda[me][type])
    ELSE /\ forcelj = FMul(r6inv, FSub(FMul(ljn1[me][type], r6inv),
                                       ljn2[me][type]))
         /\ eflag # 0 =>
              evdwl = FMul(r6inv, FSub(FMul(ljn3[me][type], r6inv),
                                       ljn4[me][type]))

\* a record of a configured type with rsq = sigma[type]^2 exactly, energy
\* requested: force and energy are those of the ljn branch
C9_Witness ==
  /\ PairDone /\ eflag # 0 /\ setflag[me][type] = 1
  /\ rsq = FMul(sigma[me][type], sigma[me][type])
  /\ IsNum(forcelj) /\ evdwl.m # 0
  /\ evdwl = FMul(r6inv, FSub(FMul(ljn3[me][type], r6inv), ljn4[me][type]))

(***************************************************************************)
(* C10: the divisors of the torsion computation                            *)
(***************************************************************************)
\* C10: for bond vectors that are not zero, every divisor of the torsion
\* computation is non-zero where it is divided by: the joint sines and the
\* cross-product magnitude after the geometry, the dihedral sine after the
\* potential.
C10_DivisorsNonZero ==
  /\ at = "check" => sc1div.m # 0 /\ sc2div.m # 0 /\ cmag.m # 0
  /\ at = "forces" => si.m # 0

(***************************************************************************)
(* C3: the derived constants                                               *)
(***************************************************************************)
\* C3: on every rank, every type whose flag is set has its eight derived
\* constants equal to the formulas applied to its current epsilon, sigma
\* and lambda.
C3_Derived ==
  \A w \in Workers :
    allocated[w] = 1 =>
      \A t \in Types :
        setflag[w][t] = 1 =>
          /\ ljm1[w][t] = FMul(FMul(FromInt(12), epsilon[w][t]),
                               powint[sigma[w][t], 12])
          /\ ljm2[w][t] = FMul(FMul(FromInt(12), epsilon[w][t]),
                               powint[sigma[w][t], 6])
          /\ ljm3[w][t] = FMul(epsilon[w][t], powint[sigma[w][t], 12])
          /\ ljm4[w][t] = FMul(FMul(FromInt(2), epsilon[w][t]),
                               powint[sigma[w][t], 6])
          /\ ljn1[w][t] = FMul(FMul(FromInt(-12), lambda[w][t]),
                               powint[sigma[w][t], 12])
          /\ ljn2[w][t] = FMul(FMul(FromInt(-12), lambda[w][t]),
                               powint[sigma[w][t], 6])
          /\ ljn3[w][t] = FMul(FNeg(lambda[w][t]), powint[sigma[w][t], 12])
          /\ ljn4[w][t] = FMul(FMul(FromInt(-2), lambda[w][t]),
                               powint[sigma[w][t], 6])

\* a store of two differently configured types on every rank, the last
\* change a coeff command that succeeded
C3_Witness ==
  /\ ntypes = 2 /\ allocated[1] = 1 /\ call # NoCall /\ err = NoError
  /\ setflag[1] = <<1, 1>>
  /\ sigma[1][1] # sigma[1][2] /\ lambda[1][2].m # 0 /\ ljn4[1][2].m # 0

(***************************************************************************)
(* C5: restart round trip                                                  *)
(***************************************************************************)
\* C5: when the store written had every type configured, after read_restart
\* every rank holds, for every type, the epsilon, sigma, lambda and
\* epsdihed written, the flag set, and the derived constants the writer
\* had.
C5_RoundTrip ==
  (restored /\ wsnap # Null /\ \A t \in Types : wsnap.setflag[t] = 1) =>
    \A w \in Workers :
      /\ allocated[w] = 1
      /\ \A t \in Types :
           /\ setflag[w][t] = 1
           /\ epsilon[w][t] = wsnap.epsilon[t]
           /\ sigma[w][t] = wsnap.sigma[t]
           /\ lambda[w][t] = wsnap.lambda[t]
           /\ epsdihed[w][t] = wsnap.epsdihed[t]
           /\ ljm1[w][t] = wsnap.ljm1[t] /\ ljm2[w][t] = wsnap.ljm2[t]
           /\ ljm3[w][t] = wsnap.ljm3[t] /\ ljm4[w][t] = wsnap.ljm4[t]
           /\ ljn1[w][t] = wsnap.ljn1[t] /\ ljn2[w][t] = wsnap.ljn2[t]
           /\ ljn3[w][t] = wsnap.ljn3[t] /\ ljn4[w][t] = wsnap.ljn4[t]

\* a store of two differently configured types that has been written and
\* read back
C5_Witness ==
  /\ restored /\ wsnap # Null /\ ntypes = 2 /\ call = NoCall
  /\ wsnap.setflag = <<1, 1>>
  /\ wsnap.epsilon[1] # wsnap.epsilon[2]
  /\ epsdihed[1][2].m # 0

(***************************************************************************)
(* C6: the layout of the restart file                                      *)
(***************************************************************************)
\* C6 (as stated): the file holds ntypes*4 doubles, the four values of one
\* type adjacent: epsilon[1], sigma[1], lambda[1], epsdihed[1],
\* epsilon[2], ...
C6_PerType ==
  fp # << >> =>
    /\ Len(fp) = 4 * ntypes
    /\ \A t \in Types :
         /\ fp[4 * (t - 1) + 1] = wsnap.epsilon[t]
         /\ fp[4 * (t - 1) + 2] = wsnap.sigma[t]
         /\ fp[4 * (t - 1) + 3] = wsnap.lambda[t]
         /\ fp[4 * (t - 1) + 4] = wsnap.epsdihed[t]

\* C6 (amended): the file holds ntypes*4 doubles and no header, array by
\* array: epsilon[1..ntypes], then sigma[1..ntypes], then
\* lambda[1..ntypes], then epsdihed[1..ntypes], each in ascending type
\* order.
C6_PerArray ==
  fp # << >> =>
    /\ Len(fp) = 4 * ntypes
    /\ \A t \in Types :
         /\ fp[t] = wsnap.epsilon[t]
         /\ fp[ntypes + t] = wsnap.sigma[t]
         /\ fp[2 * ntypes + t] = wsnap.lambda[t]
         /\ fp[3 * ntypes + t] = wsnap.epsdihed[t]

\* a file written from a store of two differently configured types
C6_Witness ==
  /\ Len(fp) = 8 /\ wsnap.setflag = <<1, 1>>
  /\ fp[1] # fp[2] /\ fp[2] # fp[3] /\ fp[7] # fp[8]

(***************************************************************************)
(* C7: validation of the coefficient command                               *)
(***************************************************************************)
\* the flags and values of every type as rank w holds them; before the
\* arrays exist no flag is set and every value is indeterminate
PerType(w) ==
  IF allocated[w] = 1
  THEN <<setflag[w], epsilon[w], sigma[w], lambda[w], epsdihed[w],
         ljm1[w], ljm2[w], ljm3[w], ljm4[w],
         ljn1[w], ljn2[w], ljn3[w], ljn4[w]>>
  ELSE <<[t \in Types |-> 0], Created, Created, Created, Created,
         Created, Created, Created, Created,
         Created, Created, Created, Created>>

\* C7: a coeff command whose number of values is not 3 or 4, or whose range
\* holds no type, fails with "Incorrect args for dihedral coefficients"
\* and changes no flag and no value of any type; with 3 or 4 values and a
\* range that holds a type it succeeds, and with 3 values epsdihed of every
\* type of the range is 0.
C7_Validation ==
  [][call' # NoCall =>
       LET values == Len(call'.args)
           empty == call'.ihi < call'.ilo
       IN IF values \notin {3, 4} \/ empty
          THEN /\ err' = "Incorrect args for dihedral coefficients"
               /\ \A w \in Workers : PerType(w)' = PerType(w)
          ELSE /\ err' = NoError
               /\ \A w \in Workers : \A t \in (call'.ilo)..(call'.ihi) :
                    /\ setflag'[w][t] = 1
                    /\ epsilon'[w][t] = call'.args[1]
                    /\ values = 3 => epsdihed'[w][t] = Zero]_vars

\* a command of three values for a range without a type has failed on a
\* store that has a configured type
C7_Witness ==
  /\ call # NoCall /\ err = IncorrectArgs
  /\ Len(call.args) = 3 /\ call.ihi < call.ilo
  /\ allocated[0] = 1 /\ setflag[0][1] = 1

=============================================================================
